---- MODULE Spec2Model ----
(***************************************************************************)
(* State-machine model of the TowerDefence simulation core:                *)
(*   src/main.py   TowerDefenseGame (run_game loop, _update_game,          *)
(*                 _next_level, game_over)                                 *)
(*   src/level.py  LevelBase (waves, spawning, collisions, wave check)     *)
(*   src/enemy.py  Enemy (take_damage, on_death, update)                   *)
(*   src/tower.py  Tower / BasicTower / SniperTower / MoneyTower           *)
(*                                                                         *)
(* One run_game iteration is split into its sub-steps, in program order;   *)
(* pc names the statement the loop is about to execute.  Only the fields   *)
(* of the level object TowerDefenseGame.level currently refers to are      *)
(* kept: a level that has been left is never referenced again, and a level *)
(* not yet entered is in the state its constructor left it in.             *)
(*                                                                         *)
(* Positions are integer points and model paths are axis-aligned, so that  *)
(* Vector2.normalize yields a unit axis vector and every distance test of  *)
(* the code (d < speed, d <= tower_range, d1 < d2) is decided exactly on   *)
(* squared distances.  Cosmetic state (images, rotation angle, sounds) is  *)
(* left out.                                                               *)
(***************************************************************************)
EXTENDS Integers, Sequences, FiniteSets, TLC

(***************************************************************************)
(* Bounds of the model                                                     *)
(***************************************************************************)
\* the clock stops advancing once it would pass MaxTime (milliseconds)
MaxTime == 5000
\* the two frame durations clock.tick may take (milliseconds)
TickShort == 600
TickLong == 1100

TickSteps == {TickShort, TickLong}

(***************************************************************************)
(* Level data (model instances of the Level1/Level2/Level3 tables)         *)
(***************************************************************************)
PathA == << <<0, 0>>, <<200, 0>>, <<200, 200>> >>

BasicEnemy == [path |-> PathA, speed |-> 100, health |-> 20, reward |-> 10]

StrongEnemy == [path |-> PathA, speed |-> 100, health |-> 40, reward |-> 30]

\* levels[i] is the wave list of level i+1: a sequence of waves, each a
\* sequence of spawn descriptors
Levels == << << <<BasicEnemy, BasicEnemy>>, <<BasicEnemy>>,
                <<StrongEnemy, StrongEnemy>> >>,
             << <<BasicEnemy>> >> >>

NumLevels == Len(Levels)

(***************************************************************************)
(* Program constants                                                       *)
(***************************************************************************)
SpawnDelay == 1000

UpgradeCostPerLevel == 50

MoneyGenerationRate == 10

GenerationInterval == 1000

\* pygame.Surface((30, 40)): the enemy's hit rectangle
EnemyWidth == 30

EnemyHeight == 40

TowerTypes == {"basic", "sniper", "money"}

\* per-variant stats set by the constructors
TowerRange(type) ==
    CASE type = "basic" -> 150
      [] type = "sniper" -> 300
      [] OTHER -> 120

TowerDamage(type) ==
    CASE type = "basic" -> 20
      [] type = "sniper" -> 40
      [] OTHER -> 50

TowerRateOfFire(type) ==
    CASE type = "basic" -> 1000
      [] type = "sniper" -> 2000
      [] OTHER -> 1000

\* settings.tower_costs and settings.starting_money (settings.py)
TowerCosts == [basic |-> 50, sniper |-> 100, money |-> 100]

StartingMoney == 150

\* the cells of the placement grid (grid.py)
GridCells == { <<100, 100>>, <<300, 100>> }

(***************************************************************************)
(* State                                                                   *)
(***************************************************************************)
VARIABLES
    pc,                  \* next statement of run_game
    time,                \* pygame.time.get_ticks()
    event,               \* the input event handled by the last _check_events
    money,               \* settings.starting_money, the ledger
    current_level_index, \* TowerDefenseGame.current_level_index
    is_game_over,        \* TowerDefenseGame.is_game_over
    is_game_won,         \* TowerDefenseGame.is_game_won
    enemy,               \* enemy[i]: the i-th Enemy object constructed
    enemies,             \* level.enemies: the ids of the group, in order
    towers,              \* level.towers, in group order
    bullets,             \* level.bullets, in group order
    current_wave,        \* level.current_wave
    spawned_enemies,     \* level.spawned_enemies
    last_spawn_time,     \* level.last_spawn_time
    all_waves_complete,  \* level.all_waves_complete
    credited,            \* credited[i]: times enemy i's reward was credited
    origin,              \* origin[i]: <<level, wave, descriptor>> of enemy i
    born,                \* born[i]: the clock when enemy i was constructed
    ret,                 \* find_target or a group update called on its own:
                         \* the index returned, the enemy whose update raised
    leaked,              \* ids of the enemies that called game_over
    collisions,          \* the dictionary groupcollide returned in update:
                         \* per hitting bullet its damage and its enemies
    shots                \* shots[k]: the emissions of the k-th tower, each
                         \* with its time and the rate_of_fire then in effect

vars == << pc, time, event, money, current_level_index, is_game_over,
           is_game_won, enemies, towers, bullets, current_wave,
           spawned_enemies, last_spawn_time, all_waves_complete, enemy,
           credited, origin, born, ret, leaked, collisions, shots >>

gameVars == << money, current_level_index, is_game_over, is_game_won >>

levelVars == << enemies, towers, bullets, current_wave, spawned_enemies,
                last_spawn_time, all_waves_complete >>

histVars == << credited, origin, born, leaked, collisions, shots >>

\* the Enemy objects of the group, in group order
ActiveEnemies == [k \in 1..Len(enemies) |-> enemy[enemies[k]]]

(***************************************************************************)
(* Helpers                                                                 *)
(***************************************************************************)
Abs(x) == IF x < 0 THEN -x ELSE x

Sgn(x) == IF x < 0 THEN -1 ELSE IF x > 0 THEN 1 ELSE 0

\* squared Euclidean distance; Vector2.distance_to compared through squares
Dist2(p, q) == (p[1] - q[1]) * (p[1] - q[1]) + (p[2] - q[2]) * (p[2] - q[2])

\* Vector2.normalize of an axis-aligned non-zero vector
Normalize(v) == << Sgn(v[1]), Sgn(v[2]) >>

\* the elements of s whose index satisfies keep
RECURSIVE KeepIdx(_, _, _)
KeepIdx(s, keep, i) ==
    IF i > Len(s) THEN << >>
    ELSE IF keep[i] THEN << s[i] >> \o KeepIdx(s, keep, i + 1)
    ELSE KeepIdx(s, keep, i + 1)

\* self.waves of the current level
Waves == Levels[current_level_index + 1]

(***************************************************************************)
(* Enemy                                                                   *)
(***************************************************************************)
\* Enemy.__init__
NewEnemy(info) ==
    [path |-> info.path, path_index |-> 0, speed |-> info.speed,
     health |-> info.health, reward |-> info.reward, pos |-> info.path[1]]

\* the movement of Enemy.update along the segment that starts at waypoint
\* path_index: the moved enemy, whether it called game_over and kill, and
\* whether normalize raised ValueError on a segment of length zero; last is
\* the index (from 0) at which the path counts as finished
MoveAlong(e, last) ==
    LET start_point == e.path[e.path_index + 1]
        end_point == e.path[e.path_index + 2]
        direction == Normalize(<< end_point[1] - start_point[1],
                                  end_point[2] - start_point[2] >>)
        position == << e.pos[1] + direction[1] * e.speed,
                       e.pos[2] + direction[2] * e.speed >>
        index == IF Dist2(position, end_point) < e.speed * e.speed
                 THEN e.path_index + 1
                 ELSE e.path_index
    IN  IF start_point = end_point
        THEN [enemy |-> e, leak |-> FALSE, error |-> TRUE]
        ELSE [enemy |-> [e EXCEPT !.pos = position, !.path_index = index],
              leak |-> index >= last, error |-> FALSE]

\* variant of the update without the guard on path_index: reading the
\* waypoint after the last one raises IndexError
EnemyUpdateUnguarded(e) ==
    IF e.path_index + 2 > Len(e.path)
    THEN [enemy |-> e, leak |-> FALSE, error |-> TRUE]
    ELSE MoveAlong(e, Len(e.path) - 1)

\* variant of the update that takes the path as finished one waypoint late
EnemyUpdateLateLeak(e) ==
    IF e.path_index < Len(e.path) - 1
    THEN MoveAlong(e, Len(e.path))
    ELSE [enemy |-> e, leak |-> FALSE, error |-> FALSE]

\* Enemy.update
EnemyUpdate(e) ==
    IF e.path_index < Len(e.path) - 1
    THEN MoveAlong(e, Len(e.path) - 1)
    ELSE [enemy |-> e, leak |-> FALSE, error |-> FALSE]

\* variant of on_death that leaves the enemy in its groups
OnDeathStays(st, k) ==
    [st EXCEPT !.money = @ + st.objs[k].reward,
               !.credited[k] = @ + 1]

\* Enemy.on_death of object k on the running state
\* st = [objs, group, money, credited]: credit the reward, kill()
OnDeath(st, k) ==
    [st EXCEPT !.money = @ + st.objs[k].reward,
               !.credited[k] = @ + 1,
               !.group = SelectSeq(@, LAMBDA i : i # k)]

\* variant of take_damage that lowers the health and never calls on_death
TakeDamageSurvives(st, k, amount) ==
    [st EXCEPT !.objs[k].health = @ - amount]

\* Enemy.take_damage
TakeDamage(st, k, amount) ==
    LET st1 == [st EXCEPT !.objs[k].health = @ - amount]
    IN  IF st1.objs[k].health <= 0 THEN OnDeath(st1, k) ELSE st1

(***************************************************************************)
(* Bullet (bullet.py)                                                      *)
(***************************************************************************)
\* Bullet.__init__
NewBullet(start_pos, target_pos, damage) ==
    [pos |-> start_pos, target |-> target_pos, damage |-> damage]

\* Bullet.update: straight-line travel to the aim point, reached within one
\* frame; a bullet already at its aim point has passed it and is removed
BulletUpdate(b) ==
    IF b.pos = b.target
    THEN [bullet |-> b, alive |-> FALSE]
    ELSE [bullet |-> [b EXCEPT !.pos = b.target], alive |-> TRUE]

\* pygame.sprite.collide_rect of a bullet with an enemy: the bullet's centre
\* lies inside the enemy's rectangle, which is centred on the enemy
Overlaps(b, e) ==
    /\ 2 * Abs(b.pos[1] - e.pos[1]) < EnemyWidth
    /\ 2 * Abs(b.pos[2] - e.pos[2]) < EnemyHeight

(***************************************************************************)
(* Tower                                                                   *)
(***************************************************************************)
\* Tower.__init__ and the subclass constructors, at clock value now
NewTower(type, position, now) ==
    [type |-> type, pos |-> position, tower_range |-> TowerRange(type),
     damage |-> TowerDamage(type), rate_of_fire |-> TowerRateOfFire(type),
     last_shot_time |-> now, level |-> 1,
     last_generation_time |-> IF type = "money" THEN now ELSE 0]

\* Tower.upgrade_cost
UpgradeCost(t) == UpgradeCostPerLevel * t.level

\* int(damage * 1.2) and int(rate_of_fire * 0.8): the double product
\* truncated toward zero, which for the non-negative integers below 200000
\* equals the exact quotient
ScaleDamage(d) == (12 * d) \div 10

ScaleRate(r) == (8 * r) \div 10

\* variant of the guard that grants every upgrade
CanUpgradeUnfunded(t, balance) ==
    balance >= 0

\* variant of the guard that prices the upgrade one level too low
CanUpgradePreviousLevel(t, balance) ==
    balance >= UpgradeCostPerLevel * (t.level - 1)

\* the guard of Tower.upgrade
CanUpgrade(t, balance) == balance >= UpgradeCost(t)

\* variant of the upgrade that lengthens the fire interval
UpgradedSlower(t) ==
    [t EXCEPT !.level = @ + 1,
              !.damage = ScaleDamage(@),
              !.rate_of_fire = ScaleDamage(@)]

\* the body of a successful Tower.upgrade
Upgraded(t) ==
    [t EXCEPT !.level = @ + 1,
              !.damage = ScaleDamage(@),
              !.rate_of_fire = ScaleRate(@)]

\* variant of the scan in which a later enemy at the same distance wins
RECURSIVE FindNearestLatest(_, _, _, _, _)
FindNearestLatest(t, es, i, best, best_d2) ==
    IF i > Len(es) THEN best
    ELSE LET d2 == Dist2(t.pos, es[i].pos)
         IN  IF /\ d2 <= t.tower_range * t.tower_range
                /\ (best_d2 = -1 \/ d2 <= best_d2)
             THEN FindNearestLatest(t, es, i + 1, i, d2)
             ELSE FindNearestLatest(t, es, i + 1, best, best_d2)

\* Tower.find_target: index of the nearest enemy within range, 0 for None;
\* best_d2 = -1 stands for float('inf')
RECURSIVE FindNearest(_, _, _, _, _)
FindNearest(t, es, i, best, best_d2) ==
    IF i > Len(es) THEN best
    ELSE LET d2 == Dist2(t.pos, es[i].pos)
         IN  IF /\ d2 <= t.tower_range * t.tower_range
                /\ (best_d2 = -1 \/ d2 < best_d2)
             THEN FindNearest(t, es, i + 1, i, d2)
             ELSE FindNearest(t, es, i + 1, best, best_d2)

\* variant of the scan in which a later enemy of the same health wins
RECURSIVE FindHealthiestLatest(_, _, _, _, _)
FindHealthiestLatest(t, es, i, best, max_health) ==
    IF i > Len(es) THEN best
    ELSE IF /\ Dist2(t.pos, es[i].pos) <= t.tower_range * t.tower_range
            /\ es[i].health >= max_health
         THEN FindHealthiestLatest(t, es, i + 1, i, es[i].health)
         ELSE FindHealthiestLatest(t, es, i + 1, best, max_health)

\* SniperTower.find_target: index of the healthiest enemy within range
RECURSIVE FindHealthiest(_, _, _, _, _)
FindHealthiest(t, es, i, best, max_health) ==
    IF i > Len(es) THEN best
    ELSE IF /\ Dist2(t.pos, es[i].pos) <= t.tower_range * t.tower_range
            /\ es[i].health > max_health
         THEN FindHealthiest(t, es, i + 1, i, es[i].health)
         ELSE FindHealthiest(t, es, i + 1, best, max_health)

\* variant of the scan that takes the first enemy, wherever it stands
FindTargetAnywhere(t, es) ==
    IF es = << >> THEN 0 ELSE 1

\* self.find_target(enemies), by the class of the tower
FindTarget(t, es) ==
    IF t.type = "sniper" THEN FindHealthiest(t, es, 1, 0, 0)
    ELSE FindNearest(t, es, 1, 0, -1)

\* variant of the firing guard that waits half the interval
ReadyToFireHalf(t, current_time) ==
    2 * (current_time - t.last_shot_time) >= t.rate_of_fire

\* the firing guard of Tower.update
ReadyToFire(t, current_time) ==
    current_time - t.last_shot_time >= t.rate_of_fire

\* variant of the generation guard that waits half the interval
GenerationDueHalf(t, current_time) ==
    2 * (current_time - t.last_generation_time) > GenerationInterval

\* the guard of MoneyTower.update
GenerationDue(t, current_time) ==
    current_time - t.last_generation_time > GenerationInterval

\* Tower.update / MoneyTower.update of the k-th tower on the running state
\* st = [towers, bullets, money, shots]
TowerUpdate(st, k, es, current_time) ==
    LET t == st.towers[k]
    IN  IF t.type = "money"
        THEN IF GenerationDue(t, current_time)
             THEN [st EXCEPT !.money = @ + MoneyGenerationRate,
                             !.towers[k].last_generation_time = current_time]
             ELSE st
        ELSE LET target == FindTarget(t, es)
             IN  IF target # 0 /\ ReadyToFire(t, current_time)
                 THEN [st EXCEPT
                         !.towers[k].last_shot_time = current_time,
                         !.shots[k] = Append(@, [t |-> current_time,
                                                 rate |-> t.rate_of_fire]),
                         !.bullets = Append(@, NewBullet(t.pos,
                                              es[target].pos, t.damage))]
                 ELSE st

RECURSIVE TowersUpdateFrom(_, _, _, _)
TowersUpdateFrom(st, k, es, current_time) ==
    IF k > Len(st.towers) THEN st
    ELSE TowersUpdateFrom(TowerUpdate(st, k, es, current_time), k + 1, es,
                          current_time)

(***************************************************************************)
(* Level                                                                   *)
(***************************************************************************)
\* a freshly spawned enemy is appended to the group es; the history
\* variables record its identity and the descriptor it was built from
SpawnInto(es, wave, index) ==
    /\ enemy' = Append(enemy, NewEnemy(Waves[wave + 1][index + 1]))
    /\ enemies' = Append(es, Len(enemy) + 1)
    /\ credited' = Append(credited, 0)
    /\ origin' = Append(origin, << current_level_index, wave, index >>)
    /\ born' = Append(born, time)

\* variant of start_next_wave whose spawn is not counted
StartNextWaveUncounted(es, wave) ==
    IF wave < Len(Waves)
    THEN IF 0 < Len(Waves[wave + 1])
         THEN /\ SpawnInto(es, wave, 0)
              /\ spawned_enemies' = 0
         ELSE /\ enemies' = es
              /\ spawned_enemies' = 0
              /\ UNCHANGED << enemy, credited, origin, born >>
    ELSE /\ enemies' = es
         /\ UNCHANGED << spawned_enemies, enemy, credited, origin, born >>

\* LevelBase.start_next_wave with spawn_next_enemy inlined, on the group es
\* and the wave index wave
StartNextWave(es, wave) ==
    IF wave < Len(Waves)
    THEN IF 0 < Len(Waves[wave + 1])
         THEN /\ SpawnInto(es, wave, 0)
              /\ spawned_enemies' = 1
         ELSE /\ enemies' = es
              /\ spawned_enemies' = 0
              /\ UNCHANGED << enemy, credited, origin, born >>
    ELSE /\ enemies' = es
         /\ UNCHANGED << spawned_enemies, enemy, credited, origin, born >>

\* the guard of the timer-gated spawn of LevelBase.update
SpawnDue(current_time) ==
    /\ current_wave < Len(Waves)
    /\ spawned_enemies < Len(Waves[current_wave + 1])
    /\ current_time - last_spawn_time > SpawnDelay

\* variant of the collision list that keeps the first overlapped enemy only
CollisionListFirst(b, es, objs) ==
    SubSeq(SelectSeq(es, LAMBDA i : Overlaps(b, objs[i])), 1, 1)

\* pygame.sprite.groupcollide(bullets, enemies, True, False): the list of
\* the enemies of group es that bullet b overlaps, in group order
CollisionList(b, es, objs) ==
    SelectSeq(es, LAMBDA i : Overlaps(b, objs[i]))

\* the dictionary itself: the bullets with a non-empty list, in group order
CollisionDict(bs, es, objs) ==
    LET all == [i \in 1..Len(bs) |->
                  [damage |-> bs[i].damage,
                   hit |-> CollisionList(bs[i], es, objs)]]
    IN  SelectSeq(all, LAMBDA c : c.hit # << >>)

\* for enemy in collisions[bullet]: enemy.take_damage(bullet.damage)
RECURSIVE DamageAll(_, _, _, _)
DamageAll(st, hit, j, amount) ==
    IF j > Len(hit) THEN st
    ELSE DamageAll(TakeDamage(st, hit[j], amount), hit, j + 1, amount)

\* for bullet in collisions: ...; the dictionary was filled before any damage
\* was dealt, so it still lists enemies an earlier bullet has killed
RECURSIVE ResolveCollisions(_, _, _)
ResolveCollisions(st, dict, i) ==
    IF i > Len(dict) THEN st
    ELSE ResolveCollisions(DamageAll(st, dict[i].hit, 1, dict[i].damage),
                           dict, i + 1)

\* variant of the statement order: movement, firing and the advance of the
\* bullets come before the collisions
AfterMovingFirst(stmt) ==
    CASE stmt = "update" -> "enemies"
      [] stmt = "enemies" -> "towers"
      [] stmt = "towers" -> "bullets"
      [] stmt = "bullets" -> "collide"
      [] stmt = "collide" -> "wavecheck"
      [] stmt = "wavecheck" -> "sweep"

\* the statement of LevelBase.update that follows statement stmt; the sweep
\* of _update_game follows the last one
After(stmt) ==
    CASE stmt = "update" -> "collide"
      [] stmt = "collide" -> "enemies"
      [] stmt = "enemies" -> "towers"
      [] stmt = "towers" -> "bullets"
      [] stmt = "bullets" -> "wavecheck"
      [] stmt = "wavecheck" -> "sweep"

\* the state of a level object as its constructor leaves it: the wave list
\* is still empty when LevelBase.__init__ calls start_next_wave, and every
\* level is built with the game (main.py line 36), when the clock reads 0
FreshLevel ==
    /\ enemies' = << >>
    /\ towers' = << >>
    /\ bullets' = << >>
    /\ current_wave' = 0
    /\ spawned_enemies' = 0
    /\ last_spawn_time' = 0
    /\ all_waves_complete' = FALSE

(***************************************************************************)
(* Input events                                                            *)
(***************************************************************************)
NoInput == [type |-> "none", tower |-> 0, cell |-> << 0, 0 >>,
            variant |-> "none"]

\* Grid.is_spot_available (grid.py): a cell of the grid no tower stands on
IsSpotAvailable(cell) ==
    /\ cell \in GridCells
    /\ \A k \in 1..Len(towers) : towers[k].pos # cell

\* the cells a click may resolve to, one of them outside the grid
ClickCells == GridCells \cup { << 500, 500 >> }

\* the variants attempt_place_tower may be called with, one of them unknown
Variants == TowerTypes \cup { "laser" }

(***************************************************************************)
(* Initial state: after TowerDefenseGame.__init__                          *)
(***************************************************************************)
Init ==
    /\ pc = "events"
    /\ time = 0
    /\ event = NoInput
    /\ money = StartingMoney
    /\ current_level_index = 0
    /\ is_game_over = FALSE
    /\ is_game_won = FALSE
    /\ enemies = << >>
    /\ towers = << >>
    /\ bullets = << >>
    /\ current_wave = 0
    /\ spawned_enemies = 0
    /\ last_spawn_time = 0
    /\ all_waves_complete = FALSE
    /\ enemy = << >>
    /\ credited = << >>
    /\ origin = << >>
    /\ born = << >>
    /\ ret = 0
    /\ leaked = {}
    /\ collisions = << >>
    /\ shots = << >>

(***************************************************************************)
(* _check_events: one input event per frame                                *)
(***************************************************************************)
\* variant of the placement guard that does not look at the balance
CanPlaceUnfunded(variant, balance) ==
    variant \in TowerTypes

\* the outer guard of attempt_place_tower: a known variant the balance covers
CanPlace(variant, balance) ==
    /\ variant \in TowerTypes
    /\ balance >= TowerCosts[variant]

\* left click: LevelBase.attempt_place_tower
AttemptPlaceTower(cell, variant) ==
    /\ pc = "events"
    /\ pc' = "update"
    /\ UNCHANGED ret
    /\ event' = [type |-> "place", tower |-> 0, cell |-> cell,
                 variant |-> variant]
    /\ IF CanPlace(variant, money)
       THEN IF IsSpotAvailable(cell)
            THEN /\ money' = money - TowerCosts[variant]
                 /\ towers' = Append(towers, NewTower(variant, cell, time))
                 /\ shots' = Append(shots, << >>)
            ELSE UNCHANGED << money, towers, shots >>
       ELSE UNCHANGED << money, towers, shots >>
    /\ UNCHANGED << time, current_level_index, is_game_over, is_game_won,
                    enemies, bullets, current_wave, spawned_enemies,
                    last_spawn_time, all_waves_complete, enemy, credited,
                    origin, born, leaked, collisions >>

\* right click on the k-th tower: Tower.upgrade
Upgrade(k) ==
    /\ pc = "events"
    /\ k \in 1..Len(towers)
    /\ pc' = "update"
    /\ UNCHANGED ret
    /\ event' = [type |-> "upgrade", tower |-> k, cell |-> towers[k].pos,
                 variant |-> "none"]
    /\ IF CanUpgrade(towers[k], money)
       THEN /\ money' = money - UpgradeCost(towers[k])
            /\ towers' = [towers EXCEPT ![k] = Upgraded(@)]
       ELSE UNCHANGED << money, towers >>
    /\ UNCHANGED << time, current_level_index, is_game_over, is_game_won,
                    enemies, bullets, current_wave, spawned_enemies,
                    last_spawn_time, all_waves_complete, enemy, histVars >>

\* no event in the queue
NoEvent ==
    /\ pc = "events"
    /\ pc' = "update"
    /\ UNCHANGED ret
    /\ event' = NoInput
    /\ UNCHANGED << time, gameVars, levelVars, enemy, histVars >>

(***************************************************************************)
(* _update_game and LevelBase.update, statement by statement               *)
(***************************************************************************)
\* _update_game when the game is over or won: nothing is updated
UpdateSkipped ==
    /\ pc = "update"
    /\ is_game_over \/ is_game_won
    /\ pc' = "rungame"
    /\ UNCHANGED ret
    /\ event' = NoInput
    /\ UNCHANGED << time, gameVars, levelVars, enemy, histVars >>

\* LevelBase.update, the timer-gated spawn
LevelSpawn ==
    /\ pc = "update"
    /\ ~is_game_over /\ ~is_game_won
    /\ pc' = After(pc)
    /\ UNCHANGED ret
    /\ event' = NoInput
    /\ IF SpawnDue(time)
       THEN /\ SpawnInto(enemies, current_wave, spawned_enemies)
            /\ spawned_enemies' = spawned_enemies + 1
            /\ last_spawn_time' = time
       ELSE UNCHANGED << enemies, spawned_enemies, last_spawn_time,
                         enemy, credited, origin, born >>
    /\ UNCHANGED << time, gameVars, towers, bullets, current_wave,
                    all_waves_complete, leaked, collisions, shots >>

\* LevelBase.update, bullet-enemy collisions
LevelCollide ==
    /\ pc = "collide"
    /\ pc' = After(pc)
    /\ UNCHANGED ret
    /\ LET dict == CollisionDict(bullets, enemies, enemy)
           st == ResolveCollisions(
                     [objs |-> enemy, group |-> enemies,
                      money |-> money, credited |-> credited], dict, 1)
       IN  /\ enemy' = st.objs
           /\ enemies' = st.group
           /\ bullets' = SelectSeq(bullets, LAMBDA b :
                             CollisionList(b, enemies, enemy) = << >>)
           /\ money' = st.money
           /\ credited' = st.credited
           /\ collisions' = dict
    /\ UNCHANGED << time, event, current_level_index, is_game_over,
                    is_game_won, towers, current_wave, spawned_enemies,
                    last_spawn_time, all_waves_complete, origin, born, leaked,
                    shots >>

\* LevelBase.update, self.enemies.update(): every enemy of the group is
\* updated; a leaking enemy calls game_over and kill
EnemiesUpdate ==
    /\ pc = "enemies"
    /\ pc' = After(pc)
    /\ UNCHANGED ret
    /\ LET group == {enemies[k] : k \in 1..Len(enemies)}
           r == [i \in group |-> EnemyUpdate(enemy[i])]
           leaks == {i \in group : r[i].leak}
       IN  /\ enemy' = [i \in 1..Len(enemy) |->
                          IF i \in group THEN r[i].enemy ELSE enemy[i]]
           /\ enemies' = SelectSeq(enemies, LAMBDA i : i \notin leaks)
           /\ is_game_over' = (is_game_over \/ leaks # {})
           /\ leaked' = leaked \cup leaks
           /\ collisions' = << >>
    /\ UNCHANGED << time, event, money, current_level_index, is_game_won,
                    towers, bullets, current_wave, spawned_enemies,
                    last_spawn_time, all_waves_complete, credited, origin, born,
                    shots >>

\* LevelBase.update, for tower in self.towers: tower.update(...)
TowersUpdate ==
    /\ pc = "towers"
    /\ pc' = After(pc)
    /\ UNCHANGED ret
    /\ LET st == TowersUpdateFrom([towers |-> towers, bullets |-> bullets,
                                   money |-> money, shots |-> shots],
                                  1, ActiveEnemies, time)
       IN  /\ towers' = st.towers
           /\ bullets' = st.bullets
           /\ money' = st.money
           /\ shots' = st.shots
    /\ UNCHANGED << time, event, current_level_index, is_game_over,
                    is_game_won, enemies, current_wave, spawned_enemies,
                    last_spawn_time, all_waves_complete, enemy, credited,
                    origin, born, leaked, collisions >>

\* LevelBase.update, self.bullets.update()
BulletsUpdate ==
    /\ pc = "bullets"
    /\ pc' = After(pc)
    /\ UNCHANGED ret
    /\ LET n == Len(bullets)
           r == [i \in 1..n |-> BulletUpdate(bullets[i])]
       IN  bullets' = KeepIdx([i \in 1..n |-> r[i].bullet],
                              [i \in 1..n |-> r[i].alive], 1)
    /\ UNCHANGED << time, event, gameVars, enemies, towers, current_wave,
                    spawned_enemies, last_spawn_time, all_waves_complete,
                    enemy, histVars >>

\* LevelBase.update, the wave-completion check
WaveCheck ==
    /\ pc = "wavecheck"
    /\ pc' = After(pc)
    /\ UNCHANGED ret
    /\ IF Len(enemies) = 0 /\ current_wave < Len(Waves) - 1
       THEN /\ current_wave' = current_wave + 1
            /\ StartNextWave(enemies, current_wave + 1)
            /\ UNCHANGED all_waves_complete
       ELSE IF Len(enemies) = 0 /\ current_wave = Len(Waves) - 1
       THEN /\ all_waves_complete' = TRUE
            /\ UNCHANGED << enemies, current_wave, spawned_enemies, enemy,
                            credited, origin, born >>
       ELSE UNCHANGED << enemies, current_wave, spawned_enemies,
                         all_waves_complete, enemy, credited, origin, born >>
    /\ UNCHANGED << time, event, gameVars, towers, bullets, last_spawn_time,
                    leaked, collisions, shots >>

\* _update_game, the sweep over enemies with health <= 0
Sweep ==
    /\ pc = "sweep"
    /\ pc' = "levelcheck"
    /\ UNCHANGED ret
    /\ LET dead == SelectSeq(enemies, LAMBDA i : enemy[i].health <= 0)
           RECURSIVE Rewards(_)
           Rewards(k) == IF k > Len(dead) THEN 0
                         ELSE enemy[dead[k]].reward + Rewards(k + 1)
       IN  /\ money' = money + Rewards(1)
           /\ enemies' = SelectSeq(enemies, LAMBDA i : enemy[i].health > 0)
           /\ credited' = [j \in 1..Len(credited) |->
                             IF \E k \in 1..Len(dead) : dead[k] = j
                             THEN credited[j] + 1 ELSE credited[j]]
    /\ UNCHANGED << time, event, current_level_index, is_game_over,
                    is_game_won, towers, bullets, current_wave,
                    spawned_enemies, last_spawn_time, all_waves_complete,
                    enemy, origin, born, leaked, collisions, shots >>

\* _update_game, the level-completion check, with _next_level
LevelCheck ==
    /\ pc = "levelcheck"
    /\ pc' = "rungame"
    /\ UNCHANGED ret
    /\ IF all_waves_complete /\ Len(enemies) = 0
       THEN IF current_level_index < NumLevels - 1
            THEN /\ current_level_index' = current_level_index + 1
                 /\ FreshLevel
                 /\ shots' = << >>
                 /\ UNCHANGED is_game_won
            ELSE /\ is_game_won' = TRUE
                 /\ UNCHANGED << current_level_index, levelVars, shots >>
       ELSE UNCHANGED << current_level_index, is_game_won, levelVars,
                         shots >>
    /\ UNCHANGED << time, event, money, is_game_over, enemy, credited,
                    origin, born, leaked, collisions >>

(***************************************************************************)
(* run_game: the rest of the loop body                                     *)
(***************************************************************************)
\* if len(enemies) == 0 and not all_waves_complete: start_next_wave()
RunGameSpawn ==
    /\ pc = "rungame"
    /\ pc' = "tick"
    /\ UNCHANGED ret
    /\ IF Len(enemies) = 0 /\ ~all_waves_complete
       THEN StartNextWave(enemies, current_wave)
       ELSE UNCHANGED << enemies, spawned_enemies, enemy, credited,
                         origin, born >>
    /\ UNCHANGED << time, event, gameVars, towers, bullets, current_wave,
                    last_spawn_time, all_waves_complete, leaked, collisions,
                    shots >>

\* self.clock.tick(60): the clock advances by one frame
ClockTick ==
    /\ pc = "tick"
    /\ \E dt \in TickSteps :
          /\ time + dt <= MaxTime
          /\ time' = time + dt
    /\ pc' = "events"
    /\ UNCHANGED ret
    /\ UNCHANGED << event, gameVars, levelVars, enemy, histVars >>

Next ==
    \/ \E cell \in ClickCells, variant \in Variants :
          AttemptPlaceTower(cell, variant)
    \/ \E k \in 1..Len(towers) : Upgrade(k)
    \/ NoEvent
    \/ UpdateSkipped
    \/ LevelSpawn
    \/ LevelCollide
    \/ EnemiesUpdate
    \/ TowersUpdate
    \/ BulletsUpdate
    \/ WaveCheck
    \/ Sweep
    \/ LevelCheck
    \/ RunGameSpawn
    \/ ClockTick

Spec == Init /\ [][Next]_vars

(***************************************************************************)
(* find_target called on its own: one tower and a group of enemies         *)
(***************************************************************************)
\* the longest group the scan is run on
MaxScan == 3

\* where on PathA an enemy of speed 100 stands after 0, 1, 2 and 3 updates
ScanPositions == { << 0, 0 >>, << 100, 0 >>, << 200, 0 >>, << 200, 100 >> }

\* the health of a live enemy: that of BasicEnemy and that of StrongEnemy
ScanHealths == { BasicEnemy.health, StrongEnemy.health }

\* a live enemy of the group
ScanEnemies ==
    { [NewEnemy(BasicEnemy) EXCEPT
          !.pos = p, !.health = h,
          !.path_index = IF p[1] = PathA[2][1] THEN 1 ELSE 0] :
      p \in ScanPositions, h \in ScanHealths }

\* the state before the call: a tower of any variant on a cell of the grid
\* and a group of up to MaxScan live enemies
TargetInit ==
    /\ pc = "find_target"
    /\ time = 0
    /\ event = NoInput
    /\ money = StartingMoney
    /\ current_level_index = 0
    /\ is_game_over = FALSE
    /\ is_game_won = FALSE
    /\ \E type \in TowerTypes, cell \in GridCells :
          towers = << NewTower(type, cell, 0) >>
    /\ \E n \in 0..MaxScan :
          /\ enemy \in [1..n -> ScanEnemies]
          /\ enemies = [k \in 1..n |-> k]
          /\ credited = [k \in 1..n |-> 0]
          /\ origin = [k \in 1..n |-> << 0, 0, 0 >>]
          /\ born = [k \in 1..n |-> 0]
    /\ bullets = << >>
    /\ current_wave = 0
    /\ spawned_enemies = 0
    /\ last_spawn_time = 0
    /\ all_waves_complete = FALSE
    /\ ret = 0
    /\ leaked = {}
    /\ collisions = << >>
    /\ shots = << << >> >>

\* target = self.find_target(enemies)
FindTargetCall ==
    /\ pc = "find_target"
    /\ pc' = "found"
    /\ ret' = FindTarget(towers[1], ActiveEnemies)
    /\ UNCHANGED << time, event, gameVars, levelVars, enemy, histVars >>

TargetNext == FindTargetCall

TargetSpec == TargetInit /\ [][TargetNext]_vars

(***************************************************************************)
(* Enemy.update called on its own: a group of enemies, updated each frame  *)
(***************************************************************************)
\* the largest group that is updated
MaxGroup == 2

PathPoint == << <<0, 0>> >>

PathLine == << <<0, 0>>, <<200, 0>> >>

\* a path whose segments are not multiples of the speeds
PathShort == << <<0, 0>>, <<150, 0>>, <<150, 150>> >>

\* a path that repeats a waypoint
PathRepeat == << <<0, 0>>, <<0, 0>>, <<200, 0>> >>

\* a path whose first segment leaves an enemy of speed 100 short of the
\* corner by 90
PathOffset == << <<0, 0>>, <<190, 0>>, <<190, 150>> >>

MovePaths ==
    { PathPoint, PathLine, PathA, PathShort, PathRepeat, PathOffset }

MoveSpeeds == { 50, 100 }

MoveEnemies ==
    { NewEnemy([BasicEnemy EXCEPT !.path = path, !.speed = speed]) :
      path \in MovePaths, speed \in MoveSpeeds }

\* the state before the first update: a group of up to MaxGroup new enemies
MoveInit ==
    /\ pc = "enemies_update"
    /\ time = 0
    /\ event = NoInput
    /\ money = StartingMoney
    /\ current_level_index = 0
    /\ is_game_over = FALSE
    /\ is_game_won = FALSE
    /\ \E n \in 1..MaxGroup :
          /\ enemy \in [1..n -> MoveEnemies]
          /\ enemies = [k \in 1..n |-> k]
          /\ credited = [k \in 1..n |-> 0]
          /\ origin = [k \in 1..n |-> << 0, 0, 0 >>]
          /\ born = [k \in 1..n |-> 0]
    /\ towers = << >>
    /\ bullets = << >>
    /\ current_wave = 0
    /\ spawned_enemies = 0
    /\ last_spawn_time = 0
    /\ all_waves_complete = FALSE
    /\ ret = 0
    /\ leaked = {}
    /\ collisions = << >>
    /\ shots = << >>

\* Group.update from the k-th enemy of the group on, on the running state
\* st = [objs, leaks, raised]: an exception ends the loop, raised is the
\* enemy whose update raised it
RECURSIVE GroupUpdateFrom(_, _)
GroupUpdateFrom(st, k) ==
    IF k > Len(enemies) THEN st
    ELSE LET i == enemies[k]
             r == EnemyUpdate(st.objs[i])
         IN  IF r.error THEN [st EXCEPT !.raised = i]
             ELSE GroupUpdateFrom(
                      [st EXCEPT !.objs[i] = r.enemy,
                                 !.leaks = IF r.leak THEN @ \cup {i} ELSE @],
                      k + 1)

\* self.enemies.update(), once per frame; an exception ends the program
GroupUpdate ==
    /\ pc = "enemies_update"
    /\ time + TickShort <= MaxTime
    /\ time' = time + TickShort
    /\ LET st == GroupUpdateFrom([objs |-> enemy, leaks |-> {},
                                  raised |-> 0], 1)
       IN  /\ enemy' = st.objs
           /\ enemies' = SelectSeq(enemies, LAMBDA i : i \notin st.leaks)
           /\ is_game_over' = (is_game_over \/ st.leaks # {})
           /\ leaked' = leaked \cup st.leaks
           /\ ret' = st.raised
           /\ pc' = IF st.raised # 0 THEN "raised" ELSE pc
    /\ UNCHANGED << event, money, current_level_index, is_game_won, towers,
                    bullets, current_wave, spawned_enemies, last_spawn_time,
                    all_waves_complete, credited, origin, born, collisions,
                    shots >>

MoveNext == GroupUpdate

MoveSpec == MoveInit /\ [][MoveNext]_vars

(***************************************************************************)
(* Tower.upgrade called on its own: one tower, upgraded again and again    *)
(***************************************************************************)
\* the level up to which the tower is upgraded
MaxLevel == 32

\* a balance that pays for every upgrade up to MaxLevel
AmpleFunds == UpgradeCostPerLevel * ((MaxLevel * (MaxLevel - 1)) \div 2)

\* the state before the first upgrade: a new tower of any variant, and a
\* ledger that holds the starting balance or ample funds
UpgradeInit ==
    /\ pc = "upgrade"
    /\ time = 0
    /\ event = NoInput
    /\ money \in { StartingMoney, AmpleFunds }
    /\ current_level_index = 0
    /\ is_game_over = FALSE
    /\ is_game_won = FALSE
    /\ enemy = << >>
    /\ enemies = << >>
    /\ \E type \in TowerTypes, cell \in GridCells :
          towers = << NewTower(type, cell, 0) >>
    /\ bullets = << >>
    /\ current_wave = 0
    /\ spawned_enemies = 0
    /\ last_spawn_time = 0
    /\ all_waves_complete = FALSE
    /\ credited = << >>
    /\ origin = << >>
    /\ born = << >>
    /\ ret = 0
    /\ leaked = {}
    /\ collisions = << >>
    /\ shots = << << >> >>

\* tower.upgrade()
UpgradeCall ==
    /\ pc = "upgrade"
    /\ towers[1].level < MaxLevel
    /\ IF CanUpgrade(towers[1], money)
       THEN /\ money' = money - UpgradeCost(towers[1])
            /\ towers' = [towers EXCEPT ![1] = Upgraded(@)]
       ELSE UNCHANGED << money, towers >>
    /\ UNCHANGED << pc, time, event, current_level_index, is_game_over,
                    is_game_won, enemies, bullets, current_wave,
                    spawned_enemies, last_spawn_time, all_waves_complete,
                    enemy, ret, histVars >>

UpgradeNext == UpgradeCall

UpgradeSpec == UpgradeInit /\ [][UpgradeNext]_vars

(***************************************************************************)
(* Properties                                                              *)
(***************************************************************************)
\* the ids of the group
Group == {enemies[k] : k \in 1..Len(enemies)}

RECURSIVE SumRewards(_)
SumRewards(S) ==
    IF S = {} THEN 0
    ELSE LET i == CHOOSE x \in S : TRUE
         IN  enemy[i].reward + SumRewards(S \ {i})

\* the damage the bullets of dictionary dict from position j on carry for
\* enemy i
RECURSIVE DamageFor(_, _, _)
DamageFor(dict, i, j) ==
    IF j > Len(dict) THEN 0
    ELSE (IF \E k \in 1..Len(dict[j].hit) : dict[j].hit[k] = i
          THEN dict[j].damage ELSE 0) + DamageFor(dict, i, j + 1)

\* C1: the wave index of a level advances only from a state in which the
\* group is empty and every descriptor of the wave being left was spawned.
C1_WaveLeftOnlyWhenSpawnedAndClear ==
    [][(/\ current_level_index' = current_level_index
        /\ current_wave' = current_wave + 1)
       => (/\ Len(enemies) = 0
           /\ spawned_enemies = Len(Waves[current_wave + 1]))]_vars

\* C2: all_waves_complete holds only when every descriptor of every wave of
\* the level has been instantiated as an enemy that has left the group.
C2_CompleteOnlyWhenAllWavesConsumed ==
    all_waves_complete =>
        \A w \in 1..Len(Waves) : \A d \in 1..Len(Waves[w]) :
            \E i \in 1..Len(enemy) :
                /\ origin[i] = << current_level_index, w - 1, d - 1 >>
                /\ i \notin Group

\* C3: every enemy's reward is credited exactly once when its health has
\* become <= 0, and not at all before.
C3_RewardCreditedExactlyOnce ==
    \A i \in 1..Len(enemy) :
        credited[i] = (IF enemy[i].health <= 0 THEN 1 ELSE 0)

\* C4: a step in which enemies leak sets game-over, removes them and leaves
\* the ledger alone; a step in which enemies' health reaches <= 0 credits
\* exactly their rewards and leaves the game-over flag alone.
C4_LeakAndDeathOutcomes ==
    [][LET leaks == leaked' \ leaked
           died == {i \in 1..Len(enemy) :
                       enemy[i].health > 0 /\ enemy'[i].health <= 0}
       IN  /\ leaks # {} =>
                /\ is_game_over'
                /\ \A k \in 1..Len(enemies') : enemies'[k] \notin leaks
                /\ money' = money
           /\ died # {} =>
                /\ money' = money + SumRewards(died)
                /\ is_game_over' = is_game_over
                /\ \A k \in 1..Len(enemies') : enemies'[k] \notin died]_vars

\* C5: once game-over is set, no enemy is moved, damaged, spawned or
\* removed, no bullet is emitted or advanced, no tower's last-shot time
\* changes, and the wave index and spawn counter stay as they were.
C5_FrozenAfterGameOver ==
    [][is_game_over =>
         /\ enemy' = enemy
         /\ enemies' = enemies
         /\ bullets' = bullets
         /\ current_wave' = current_wave
         /\ spawned_enemies' = spawned_enemies
         /\ \A k \in 1..Len(towers) :
               /\ k <= Len(towers')
               /\ towers'[k].last_shot_time = towers[k].last_shot_time]_vars

\* C6: after a leak the level is not marked complete, the next level is not
\* entered and the game is not won; game-over and game-won never both hold.
C6_GameOverExcludesCompletion ==
    /\ [](~(is_game_over /\ is_game_won))
    /\ [][is_game_over =>
            /\ all_waves_complete' = all_waves_complete
            /\ current_level_index' = current_level_index
            /\ is_game_won' = is_game_won]_vars

\* C7: consecutive emissions of a tower are at least the rate_of_fire in
\* effect at the later one apart, and last_shot_time is the time of the
\* tower's latest emission.
C7_FireIntervalRespected ==
    /\ Len(shots) = Len(towers)
    /\ \A k \in 1..Len(shots) :
          /\ \A j \in 1..(Len(shots[k]) - 1) :
                shots[k][j + 1].t - shots[k][j].t >= shots[k][j + 1].rate
          /\ shots[k] # << >> =>
                towers[k].last_shot_time = shots[k][Len(shots[k])].t

\* C7 witness: a tower has just emitted its second bullet.
C7_TwoEmissions ==
    /\ pc = "bullets"
    /\ \E k \in 1..Len(shots) :
          Len(shots[k]) >= 2 /\ shots[k][Len(shots[k])].t = time

\* the damage the bullets that overlap enemy i of the group carry, from
\* bullet b on
RECURSIVE DamageOn(_, _)
DamageOn(i, b) ==
    IF b > Len(bullets) THEN 0
    ELSE (IF i \in Group /\ Overlaps(bullets[b], enemy[i])
          THEN bullets[b].damage ELSE 0) + DamageOn(i, b + 1)

C9_UpgradeEffect ==
    [][(/\ pc = "events"
        /\ event'.type = "upgrade"
        /\ money >= 50 * towers[event'.tower].level)
       => LET k == event'.tower
              t == towers[k]
              u == towers'[k]
          IN  /\ money' = money - 50 * t.level
              /\ u.level = t.level + 1
              /\ 10 * u.damage <= 12 * t.damage
              /\ 12 * t.damage < 10 * (u.damage + 1)
              /\ 10 * u.rate_of_fire <= 8 * t.rate_of_fire
              /\ 8 * t.rate_of_fire < 10 * (u.rate_of_fire + 1)
              /\ u.pos = t.pos
              /\ u.tower_range = t.tower_range
              /\ u.last_shot_time = t.last_shot_time
              /\ u.type = t.type
              /\ Len(towers') = Len(towers)
              /\ \A m \in 1..Len(towers) : m # k => towers'[m] = towers[m]
              /\ (t.level = 1 /\ t.damage = 20) =>
                    (u.level = 2 /\ u.damage = 24
                     /\ UpgradeCost(u) = 100)
              /\ UNCHANGED << time, current_level_index, is_game_over,
                              is_game_won, enemy, enemies, bullets,
                              current_wave, spawned_enemies,
                              last_spawn_time, all_waves_complete >>]_vars

\* C9 witness: in the second frame a level-1 basic tower has just been
\* upgraded to level 2 with damage 24 (no earlier frame could upgrade it).
C9_UpgradedBasicTower ==
    /\ pc = "update"
    /\ time <= TickLong
    /\ event.type = "upgrade"
    /\ towers[event.tower].level = 2
    /\ towers[event.tower].damage = 24
    /\ towers[event.tower].rate_of_fire = 800

\* C10: an upgrade attempted with a balance below 50 times the level
\* changes neither the towers nor the ledger, nor anything else.
C10_UpgradeWithoutFundsIsNoOp ==
    [][(/\ pc = "events"
        /\ event'.type = "upgrade"
        /\ money < 50 * towers[event'.tower].level)
       => /\ towers' = towers
          /\ money' = money
          /\ UNCHANGED << time, current_level_index, is_game_over,
                          is_game_won, enemy, enemies, bullets,
                          current_wave, spawned_enemies, last_spawn_time,
                          all_waves_complete >>]_vars

\* C10 witness: an upgrade has just been refused: the clicked tower is
\* still at level 1 and the balance is below its cost of 50.
C10_UpgradeRefused ==
    /\ pc = "update"
    /\ event.type = "upgrade"
    /\ towers[event.tower].level = 1
    /\ money < 50

\* C11: a placement attempt that fails, because the variant is unknown, the
\* balance is below the variant's cost or the cell is not available, leaves
\* the ledger and the tower set unchanged; one that succeeds debits exactly
\* the variant's cost and adds exactly one tower, of that variant on that
\* cell, to the tower set
C11_PlacementAllOrNothing ==
    [][(/\ pc = "events"
        /\ event'.type = "place")
       => LET variant == event'.variant
              cell == event'.cell
              unknown == variant \notin TowerTypes
              poor == ~unknown /\ money < TowerCosts[variant]
              taken == \/ cell \notin GridCells
                       \/ \E k \in 1..Len(towers) : towers[k].pos = cell
          IN  IF unknown \/ poor \/ taken
              THEN money' = money /\ towers' = towers
              ELSE /\ money' = money - TowerCosts[variant]
                   /\ Len(towers') = Len(towers) + 1
                   /\ SubSeq(towers', 1, Len(towers)) = towers
                   /\ towers'[Len(towers')].type = variant
                   /\ towers'[Len(towers')].pos = cell]_vars

\* a placement of a known variant on a free cell of the grid has just been
\* refused because the balance does not cover the variant's cost
C11_PlacementRefusedForFunds ==
    /\ pc = "update"
    /\ event.type = "place"
    /\ event.variant \in TowerTypes
    /\ money < TowerCosts[event.variant]
    /\ IsSpotAvailable(event.cell)
    /\ towers # << >>

\* C12: the ledger is non-negative in every reachable state, whatever the
\* interleaving of placements, upgrades, deaths and money-tower credits
C12_LedgerNonNegative ==
    money >= 0

\* the ledger has been spent down to exactly zero by a placement made after
\* an upgrade
C12_LedgerSpentToZero ==
    /\ money = 0
    /\ event.type = "place"
    /\ \E k \in 1..Len(towers) : towers[k].level > 1

\* the indices of the enemies of the group within the range of tower t
InRange(t) ==
    {k \in 1..Len(enemies) :
        Dist2(t.pos, enemy[enemies[k]].pos) <= t.tower_range * t.tower_range}

\* C13: Tower.find_target returns the enemy at minimum distance among those
\* within tower_range, the earliest scanned of those at that distance; it
\* never returns an enemy farther than tower_range, and returns None exactly
\* when no enemy is within range
C13_NearestInRange ==
    (pc = "found" /\ towers[1].type # "sniper")
    => LET t == towers[1]
           d2(k) == Dist2(t.pos, enemy[enemies[k]].pos)
       IN  /\ ret = 0 <=> InRange(t) = {}
           /\ ret # 0 =>
                 /\ ret \in InRange(t)
                 /\ \A k \in InRange(t) :
                       /\ d2(ret) <= d2(k)
                       /\ d2(k) = d2(ret) => ret <= k

\* the scan has passed a farther enemy within range and then two enemies
\* that stand at different places at the minimum distance, and returned the
\* first of the two
C13_FirstOfTwoNearest ==
    /\ pc = "found"
    /\ towers[1].type = "basic"
    /\ Len(enemies) = 3
    /\ 1 \in InRange(towers[1])
    /\ Dist2(towers[1].pos, enemy[1].pos) > Dist2(towers[1].pos, enemy[2].pos)
    /\ ret = 2
    /\ 3 \in InRange(towers[1])
    /\ enemy[3].pos # enemy[2].pos
    /\ Dist2(towers[1].pos, enemy[3].pos) = Dist2(towers[1].pos, enemy[2].pos)

\* C14: SniperTower.find_target returns the enemy of greatest current health
\* among those within tower_range, the earliest scanned of those of that
\* health, and returns None exactly when no enemy is within range
C14_HealthiestInRange ==
    (pc = "found" /\ towers[1].type = "sniper")
    => LET t == towers[1]
           health(k) == enemy[enemies[k]].health
       IN  /\ ret = 0 <=> InRange(t) = {}
           /\ ret # 0 =>
                 /\ ret \in InRange(t)
                 /\ \A k \in InRange(t) :
                       /\ health(ret) >= health(k)
                       /\ health(k) = health(ret) => ret <= k

\* the sniper's scan has passed a strong enemy out of range and returned
\* the first of two strong ones within range
C14_FirstOfTwoHealthiest ==
    /\ pc = "found"
    /\ towers[1].type = "sniper"
    /\ Len(enemies) = 3
    /\ InRange(towers[1]) = {2, 3}
    /\ enemy[1].health = StrongEnemy.health
    /\ enemy[2].health = StrongEnemy.health
    /\ enemy[3].health = StrongEnemy.health
    /\ ret = 2

\* C15: between any two consecutive spawns of a level, within a wave or
\* across a wave boundary, timer-gated or made by start_next_wave, at least
\* spawn_delay elapses, measured from the time of the earlier spawn
C15_SpawnsSpacedByDelay ==
    \A i \in 2..Len(born) :
        origin[i][1] = origin[i - 1][1]
        => born[i] - born[i - 1] >= SpawnDelay

\* C16: an enemy whose path has exactly one waypoint never changes position
\* or path index, however often it is updated: path_index stays 0, it stays
\* on its waypoint, and its update raises no error
C16_SingleWaypointStays ==
    \A i \in 1..Len(enemy) :
        Len(enemy[i].path) = 1
        => /\ enemy[i].path_index = 0
           /\ enemy[i].pos = enemy[i].path[1]
           /\ ret # i

\* an enemy with a one-waypoint path has been updated three times, after
\* another enemy of the group that moved along its path
C16_SingleWaypointUpdated ==
    /\ pc = "enemies_update"
    /\ time = 3 * TickShort
    /\ Len(enemy) = 2
    /\ enemy[1].pos # enemy[1].path[1]
    /\ Len(enemy[2].path) = 1
    /\ 2 \in Group

\* what a step of LevelBase.update does to the level: the timer-gated spawn
TimerSpawns ==
    /\ current_level_index' = current_level_index
    /\ last_spawn_time' # last_spawn_time

\* collision damage is dealt to an enemy
Damages ==
    \E i \in 1..Len(enemy) : enemy'[i].health < enemy[i].health

\* an enemy moves
Moves ==
    \E i \in 1..Len(enemy) : enemy'[i].pos # enemy[i].pos

\* a tower emits a bullet
Fires ==
    /\ Len(shots') = Len(shots)
    /\ \E k \in 1..Len(shots) : Len(shots'[k]) > Len(shots[k])

\* the bullets in flight advance
Advances ==
    /\ current_level_index' = current_level_index
    /\ is_game_won' = is_game_won
    /\ bullets' # bullets
    /\ shots' = shots
    /\ collisions' = collisions

\* the wave-completion check advances the wave or marks the level complete
ChecksWave ==
    /\ current_level_index' = current_level_index
    /\ \/ current_wave' # current_wave
       \/ all_waves_complete' # all_waves_complete

RECURSIVE HealthWhenKilled(_, _, _, _)
HealthWhenKilled(h, dict, i, j) ==
    IF j > Len(dict) \/ h <= 0 THEN h
    ELSE HealthWhenKilled(
             IF \E k \in 1..Len(dict[j].hit) : dict[j].hit[k] = i
             THEN h - dict[j].damage ELSE h,
             dict, i, j + 1)

\* C18: once an enemy is out of the group, no later operation changes its
\* health, position or path index; in the collision pass in which it dies
\* the bullets that come after the one that killed it leave it untouched
C18_RemovedEnemyUntouched ==
    [][\A i \in 1..Len(enemy) :
          /\ i \notin Group => enemy'[i] = enemy[i]
          /\ (/\ pc = "collide"
              /\ i \in Group
              /\ \A k \in 1..Len(enemies') : enemies'[k] # i)
             => /\ enemy'[i].health =
                     HealthWhenKilled(enemy[i].health, collisions', i, 1)
                /\ enemy'[i].pos = enemy[i].pos
                /\ enemy'[i].path_index = enemy[i].path_index]_vars

\* C19: leak and death exclude each other for every enemy: none both calls
\* game_over from its own update and has on_death run; an enemy killed in
\* the collision pass is neither moved nor tested for the leak afterwards;
\* an enemy that leaked takes no damage afterwards
C19_LeakExcludesDeath ==
    /\ [](\A i \in 1..Len(enemy) : ~(i \in leaked /\ credited[i] > 0))
    /\ [][\A i \in 1..Len(enemy) :
            /\ credited[i] > 0
               => /\ enemy'[i].pos = enemy[i].pos
                  /\ enemy'[i].path_index = enemy[i].path_index
                  /\ i \notin leaked'
            /\ i \in leaked
               => /\ enemy'[i].health = enemy[i].health
                  /\ credited'[i] = credited[i]]_vars

\* one enemy was killed in the collision pass of a tick whose movement has
\* been run since, and a later enemy has leaked
C19_OneKilledOneLeaked ==
    /\ is_game_over
    /\ \E i, j \in 1..Len(enemy) :
          /\ credited[i] > 0
          /\ enemy[i].health <= 0
          /\ j \in leaked
          /\ enemy[j].health > 0

\* C20: the path index of an enemy stays within 0..len(path) - 1, never
\* decreases and grows by at most one in an update; on a path of two or
\* more waypoints the enemy leaves the group in the very update in which
\* its index first equals len(path) - 1
C20_PathIndexWithinBounds ==
    /\ [](\A i \in 1..Len(enemy) :
            /\ 0 <= enemy[i].path_index
            /\ enemy[i].path_index <= Len(enemy[i].path) - 1
            /\ (/\ Len(enemy[i].path) >= 2
                /\ enemy[i].path_index = Len(enemy[i].path) - 1)
               => (i \notin Group /\ i \in leaked))
    /\ [][\A i \in 1..Len(enemy) :
            /\ enemy'[i].path_index >= enemy[i].path_index
            /\ enemy'[i].path_index <= enemy[i].path_index + 1]_vars

\* an enemy has come within its speed of the last waypoint of a path of
\* three waypoints without standing on it, and has left the group
C20_LeftGroupAtLastWaypoint ==
    \E i \in 1..Len(enemy) :
        /\ Len(enemy[i].path) = 3
        /\ enemy[i].path_index = 2
        /\ enemy[i].pos # enemy[i].path[3]
        /\ i \in leaked
        /\ i \notin Group

\* C21: an update on a zero-length segment (two equal consecutive waypoints)
\* completes without raising: the path index advances by one and the
\* position is unchanged; no update ever raises
C21_ZeroSegmentIsArrival ==
    /\ [](pc # "raised" /\ ret = 0)
    /\ [][\A k \in 1..Len(enemies) :
            LET e == enemy[enemies[k]]
            IN  (/\ e.path_index < Len(e.path) - 1
                 /\ e.path[e.path_index + 1] = e.path[e.path_index + 2])
                => /\ enemy'[enemies[k]].path_index = e.path_index + 1
                   /\ enemy'[enemies[k]].pos = e.pos]_vars

\* C22: in the towers' update a tower emits a bullet only if an enemy of the
\* group is within its tower_range; with none in range it emits nothing and
\* its last_shot_time is unchanged; the bullet starts at the tower, carries
\* the tower's damage and is aimed at the position its target has then; a
\* MoneyTower never emits
C22_EmitsOnlyAtTargetInRange ==
    [][pc = "towers"
       => LET n == Len(towers)
              fired(k) == Len(shots'[k]) > Len(shots[k])
              firing == SelectSeq([k \in 1..n |-> k], fired)
              new == SubSeq(bullets', Len(bullets) + 1, Len(bullets'))
          IN  /\ Len(towers') = n
              /\ SubSeq(bullets', 1, Len(bullets)) = bullets
              /\ Len(new) = Len(firing)
              /\ \A k \in 1..n :
                    (towers[k].type = "money" \/ InRange(towers[k]) = {})
                    => /\ ~fired(k)
                       /\ towers'[k].last_shot_time =
                             towers[k].last_shot_time
              /\ \A j \in 1..Len(firing) :
                    LET t == towers[firing[j]]
                    IN  /\ new[j].pos = t.pos
                        /\ new[j].damage = t.damage
                        /\ \E x \in InRange(t) :
                              new[j].target = enemy[enemies[x]].pos
                        /\ FindTarget(t, ActiveEnemies) # 0
                        /\ new[j].target =
                              ActiveEnemies[FindTarget(t, ActiveEnemies)].pos
                        /\ towers'[firing[j]].last_shot_time = time]_vars

\* in the towers' update just run one tower has emitted a bullet while
\* another, whose interval had elapsed, had no enemy within range
C22_OneFiredOneWithoutTarget ==
    /\ pc = "bullets"
    /\ enemies # << >>
    /\ \E k, m \in 1..Len(towers) :
          /\ shots[k] # << >>
          /\ shots[k][Len(shots[k])].t = time
          /\ towers[m].type # "money"
          /\ InRange(towers[m]) = {}
          /\ ReadyToFire(towers[m], time)

\* the money towers among the first n towers that generate in this step
Generating(n) ==
    {k \in 1..n : /\ towers[k].type = "money"
                  /\ towers'[k].last_generation_time #
                        towers[k].last_generation_time}

\* C23: in the towers' update a MoneyTower generates exactly when more than
\* generation_interval has passed since its last_generation_time, whatever
\* the enemies and the other towers do; a generation credits the ledger by
\* exactly money_generation_rate, once, and stamps last_generation_time; no
\* other step moves last_generation_time
C23_MoneyTowerGeneratesOnInterval ==
    [][Len(towers') >= Len(towers)
       => LET n == Len(towers)
          IN  IF pc = "towers"
              THEN /\ \A k \in 1..n :
                         towers[k].type = "money"
                         => /\ k \in Generating(n)
                               <=> time - towers[k].last_generation_time
                                     > GenerationInterval
                            /\ k \in Generating(n)
                               => towers'[k].last_generation_time = time
                   /\ money' = money
                                + MoneyGenerationRate * Cardinality(Generating(n))
              ELSE Generating(n) = {}]_vars

\* a money tower has just generated for the second time, with enemies in
\* the group and none killed so far
C23_SecondGeneration ==
    /\ pc = "bullets"
    /\ enemies # << >>
    /\ \A i \in 1..Len(credited) : credited[i] = 0
    /\ \E k \in 1..Len(towers) :
          /\ towers[k].type = "money"
          /\ towers[k].last_generation_time = time
    /\ money = StartingMoney - TowerCosts["money"] + 2 * MoneyGenerationRate

\* C24: every successful upgrade leaves the tower with a fire
\* interval strictly less than before, however many upgrades came before
C24_UpgradeShortensInterval ==
    [][towers'[1].level > towers[1].level
       => towers'[1].rate_of_fire < towers[1].rate_of_fire]_vars

\* how far enemy e still has to go along its current segment to be level
\* with the waypoint it heads for; negative once it is past it
Remaining(e) ==
    LET start_point == e.path[e.path_index + 1]
        end_point == e.path[e.path_index + 2]
        direction == Normalize(<< end_point[1] - start_point[1],
                                  end_point[2] - start_point[2] >>)
    IN  (end_point[1] - e.pos[1]) * direction[1]
        + (end_point[2] - e.pos[2]) * direction[2]

\* C25: while game-over is not set, an enemy of the group on a path of
\* distinct waypoints always reaches the last waypoint and leaks: it never
\* gets past the waypoint it heads for without the arrival test having
\* succeeded.  An enemy that is level with or past that waypoint and not
\* within its speed of it moves straight on along the direction of the
\* segment, so its distance to the waypoint only grows and the test never
\* succeeds afterwards: the claim holds only if no such state is reached
C25_NeverPastWaypoint ==
    \A k \in 1..Len(enemies) :
        LET e == enemy[enemies[k]]
        IN  (/\ ~is_game_over
             /\ pc # "raised"
             /\ e.path_index < Len(e.path) - 1
             /\ e.path[e.path_index + 1] # e.path[e.path_index + 2])
            => ~(/\ Remaining(e) <= 0
                 /\ Dist2(e.pos, e.path[e.path_index + 2])
                       >= e.speed * e.speed)

\* the enemies built from wave w of level l (both counted from 0)
SpawnedFrom(l, w) ==
    {i \in 1..Len(origin) : origin[i][1] = l /\ origin[i][2] = w}

\* C26: no wave of a level has more enemies built from it than it has
\* descriptors, whichever of the timer-gated spawn, the wave check and
\* run_game built them; spawned_enemies stays within 0..len(waves[
\* current_wave]) and current_wave within 0..len(waves) - 1
C26_SpawnCountsWithinWave ==
    /\ 0 <= current_wave
    /\ current_wave <= Len(Waves) - 1
    /\ 0 <= spawned_enemies
    /\ spawned_enemies <= Len(Waves[current_wave + 1])
    /\ \A l \in 1..NumLevels :
          \A w \in 1..Len(Levels[l]) :
             Cardinality(SpawnedFrom(l - 1, w - 1)) <= Len(Levels[l][w])

\* every descriptor of the last wave of the first level has been spawned,
\* the first by the wave check and the second by the timer, and the only
\* descriptor of the second level's wave by the start_next_wave of run_game
C26_WavesFullySpawned ==
    /\ current_level_index = 1
    /\ Cardinality(SpawnedFrom(0, 2)) = Len(Levels[1][3])
    /\ Cardinality(SpawnedFrom(1, 0)) = Len(Levels[2][1])
    /\ spawned_enemies = Len(Waves[current_wave + 1])

\* C27: when LevelBase.update has returned, every enemy still in the group
\* has health > 0, and the sweep of _update_game that follows credits no
\* reward and removes no enemy
C27_SweepFindsNoEnemy ==
    /\ [](pc = "sweep" =>
             \A k \in 1..Len(enemies) : enemy[enemies[k]].health > 0)
    /\ [][pc = "sweep" =>
             /\ money' = money
             /\ enemies' = enemies
             /\ credited' = credited]_vars

\* the sweep is about to run after an update that killed one enemy and left
\* a damaged one in the group
C27_SweepAfterKill ==
    /\ pc = "sweep"
    /\ \E j \in 1..Len(enemy) :
          /\ enemy[j].health <= 0
          /\ credited[j] >= 1
          /\ \A k \in 1..Len(enemies) : enemies[k] # j
    /\ \E k \in 1..Len(enemies) :
          /\ enemy[enemies[k]].health > 0
          /\ enemy[enemies[k]].health < StrongEnemy.health
          /\ enemy[enemies[k]].reward = StrongEnemy.reward

=============================================================================
